---- MODULE Spec2Model ----
(***************************************************************************)
(* Model of the "build" command of rome (cmd/build.go): PreRun, Run, the   *)
(* filepath.Walk callback, fileWorker and linkWorker.                      *)
(*                                                                         *)
(* Go strings are modelled as sequences of one-character strings, so that  *)
(* strings.Contains, strings.Replace and path.Dir act on characters.       *)
(***************************************************************************)
EXTENDS Integers, Sequences, FiniteSets, Bags, TLC

\* ------------------------------------------------------------------------
\* Bounds of the model
\* ------------------------------------------------------------------------
MaxWorkers == 2

MaxBuffer == 2

\* ------------------------------------------------------------------------
\* Program constants
\* ------------------------------------------------------------------------
\* os.Exit(401) when the source path does not exist
ExitSourceMissing == 401

\* os.Exit(1) when the clean fails
ExitCleanFailed == 1

\* width of a process exit status: the parent sees status % 2^8
ExitStatusModulus == 256

\* exit status of a Go program that ends in a panic or a fatal runtime error
ExitPanic == 2

\* ------------------------------------------------------------------------
\* Strings
\* ------------------------------------------------------------------------
Sep == <<"/">>

\* the literal "node_modules" of the skip rule
NodeModules == <<"n", "o", "d", "e", "_", "m", "o", "d", "u", "l", "e", "s">>

Sugarcrm == <<"s", "u", "g", "a", "r", "c", "r", "m">>

\* the literal "sugarcrm/node_modules" of the skip rule
SugarNodeModules == Sugarcrm \o Sep \o NodeModules

\* strings.HasPrefix
HasPrefix(s, p) == Len(p) <= Len(s) /\ SubSeq(s, 1, Len(p)) = p

\* strings.Contains(s, sub)
Contains(s, sub) ==
    \E i \in 1..(Len(s) - Len(sub) + 1) : SubSeq(s, i, i + Len(sub) - 1) = sub

\* strings.Replace(s, old, "", -1): every non-overlapping occurrence of old,
\* scanning from the left, is removed (an empty old inserts "" and changes
\* nothing).
RECURSIVE ReplaceAll(_, _)
ReplaceAll(s, old) ==
    IF old = <<>> \/ Len(s) < Len(old) THEN s
    ELSE IF SubSeq(s, 1, Len(old)) = old
         THEN ReplaceAll(SubSeq(s, Len(old) + 1, Len(s)), old)
         ELSE <<Head(s)>> \o ReplaceAll(Tail(s), old)

\* index of the last "/" of s, 0 when there is none
LastSlash(s) ==
    IF \E i \in 1..Len(s) : s[i] = "/"
    THEN CHOOSE i \in 1..Len(s) : s[i] = "/" /\ \A j \in (i + 1)..Len(s) : s[j] # "/"
    ELSE 0

\* os.FileInfo.Name(): the last element of the path
Name(p) == SubSeq(p, LastSlash(p) + 1, Len(p))

\* path.Clean, for paths without "." and ".." elements: runs of "/" collapse
\* to one, a trailing "/" is dropped (except for the root), "" becomes ".".
RECURSIVE Squeeze(_)
Squeeze(s) ==
    IF Len(s) < 2 THEN s
    ELSE IF s[1] = "/" /\ s[2] = "/" THEN Squeeze(Tail(s))
         ELSE <<Head(s)>> \o Squeeze(Tail(s))

Clean(s) ==
    LET q == Squeeze(s)
        t == IF Len(q) > 1 /\ q[Len(q)] = "/" THEN SubSeq(q, 1, Len(q) - 1) ELSE q
    IN  IF t = <<>> THEN <<".">> ELSE t

\* path.Dir: everything up to the last "/", cleaned
Dir(p) == Clean(SubSeq(p, 1, LastSlash(p)))

\* filepath.Join(dir, name) as filepath.Walk uses it to name a child
Join(dir, name) == Clean(dir \o Sep \o name)

\* ------------------------------------------------------------------------
\* Source trees.  A tree is the SOURCE-FOLDER argument and the entries below
\* it in the order filepath.Walk reaches them (pre-order, the names of one
\* directory in lexical order).  kind is what os.Lstat reports.
\* ------------------------------------------------------------------------
Entry(p, k, t) == [path |-> p, kind |-> k, target |-> t]

NoTarget == <<>>

\* sugarcrm/{a, node_modules/i, s/b, s/l -> ../a}
TreeScenario ==
    [root |-> Sugarcrm,
     entries |-> <<
        Entry(Sugarcrm, "dir", NoTarget),
        Entry(Join(Sugarcrm, <<"a">>), "file", NoTarget),
        Entry(Join(Sugarcrm, NodeModules), "dir", NoTarget),
        Entry(Join(Join(Sugarcrm, NodeModules), <<"i">>), "file", NoTarget),
        Entry(Join(Sugarcrm, <<"s">>), "dir", NoTarget),
        Entry(Join(Join(Sugarcrm, <<"s">>), <<"b">>), "file", NoTarget),
        Entry(Join(Join(Sugarcrm, <<"s">>), <<"l">>), "link", <<".", ".", "/", "a">>) >>]

\* sugarcrm/{a, node_modules (a regular file), z}
TreeNodeModulesFile ==
    [root |-> Sugarcrm,
     entries |-> <<
        Entry(Sugarcrm, "dir", NoTarget),
        Entry(Join(Sugarcrm, <<"a">>), "file", NoTarget),
        Entry(Join(Sugarcrm, NodeModules), "file", NoTarget),
        Entry(Join(Sugarcrm, <<"z">>), "file", NoTarget) >>]

\* sugarcrm/{k -> t, l -> a, x/node_modules/m}: a node_modules directory that
\* is not the one in the root
TreeSidecar ==
    [root |-> Sugarcrm,
     entries |-> <<
        Entry(Sugarcrm, "dir", NoTarget),
        Entry(Join(Sugarcrm, <<"k">>), "link", <<"t">>),
        Entry(Join(Sugarcrm, <<"l">>), "link", <<"a">>),
        Entry(Join(Sugarcrm, <<"x">>), "dir", NoTarget),
        Entry(Join(Join(Sugarcrm, <<"x">>), NodeModules), "dir", NoTarget),
        Entry(Join(Join(Join(Sugarcrm, <<"x">>), NodeModules), <<"m">>), "file", NoTarget) >>]

\* s/{a, as, ls}: three files, with names that contain the source-folder
\* string
TreeRepeat ==
    [root |-> <<"s">>,
     entries |-> <<
        Entry(<<"s">>, "dir", NoTarget),
        Entry(Join(<<"s">>, <<"a">>), "file", NoTarget),
        Entry(Join(<<"s">>, <<"a", "s">>), "file", NoTarget),
        Entry(Join(<<"s">>, <<"l", "s">>), "file", NoTarget) >>]

Trees == {TreeScenario, TreeNodeModulesFile, TreeSidecar, TreeRepeat}

\* the --destination flag
Destinations == {<<"d">>}

\* what os.Stat finds at a path
Stats == {"exists", "absent", "staterr"}

\* ------------------------------------------------------------------------
\* State
\* ------------------------------------------------------------------------
VARIABLES
    args,             \* args[0], the SOURCE-FOLDER argument
    tree,             \* the entries below the source folder, in Walk order
    srcStat,          \* what os.Stat(source) finds
    destStat,         \* what os.Stat(destination) finds
    destCreatable,    \* whether os.MkdirAll(destination) can succeed
    source,           \* package variable source
    destination,      \* package variable destination
    clean,            \* package variable clean
    fileWorkers,      \* package variable fileWorkers
    fileBufferSize,   \* package variable fileBufferSize
    linkWorkers,      \* package variable linkWorkers
    linkBufferSize,   \* package variable linkBufferSize
    fault,            \* the entry of the tree that cannot be read, if any
    quit,             \* whether the channel quit is closed
    pc,               \* position of the main goroutine
    exitStatus,       \* status of os.Exit as the parent sees it, -1 before
    i,                \* loop variable of the two spawn loops
    wi,               \* index in tree of the entry filepath.Walk visits next
    builtFiles,       \* utils.Counter
    files,            \* contents of chan File
    links,            \* contents of chan Link
    filesClosed,      \* close(files) was called
    linksClosed,      \* close(links) was called
    wg,               \* counter of sync.WaitGroup wg
    linkWg,           \* counter of sync.WaitGroup linkWg
    fw,               \* file worker goroutines: how many wait at the select,
                      \* the jobs of those in the loop body, how many returned
    lw,               \* link worker goroutines, likewise
    visited,          \* paths the Walk callback was invoked on
    emitted,          \* paths the Walk callback sent on files or links
    handled,          \* per source path, how often a worker handled its job
    built,            \* calls of build.BuildFile: file, destination, result
    mkdirs,           \* directories passed to os.MkdirAll by link workers
    symlinks,         \* calls of os.Symlink: job, target, link name, result
    summary           \* <<n>> once "Built n files" is printed

config == <<args, tree, srcStat, destCreatable, destination,
            fileWorkers, fileBufferSize, linkWorkers, linkBufferSize, fault>>

effects == <<visited, emitted, handled, built, mkdirs, symlinks>>

channels == <<files, links, filesClosed, linksClosed>>

vars == <<args, tree, srcStat, destStat, destCreatable, source, destination, clean,
          fileWorkers, fileBufferSize, linkWorkers, linkBufferSize, pc, exitStatus,
          i, wi, builtFiles, files, links, filesClosed, linksClosed, wg, linkWg,
          fw, lw, visited, emitted, handled, built, mkdirs, symlinks, summary,
          fault, quit>>

\* A pool of goroutines started from one go statement; they carry no
\* identity, so the pool is the bag of their positions.
NoWorkers == [idle |-> 0, busy |-> EmptyBag, exited |-> 0]

\* the goroutines of pool that were started
Started(pool) == pool.idle + BagCardinality(pool.busy) + pool.exited

Paths(t) == {t[n].path : n \in 1..Len(t)}

\* no entry of the tree fails to be read
NoFault == [kind |-> "none", at |-> 0]

\* the read failures of a walk of the entries t: a directory whose names
\* cannot be read, or an entry below the root that Lstat cannot stat
Faults(t) ==
    {[kind |-> "readdir", at |-> n] : n \in {k \in 1..Len(t) : t[k].kind = "dir"}}
    \cup {[kind |-> "lstat", at |-> n] : n \in 2..Len(t)}

\* the state after construction but for the worker counts and the read
\* failure
Setup ==
    /\ \E t \in Trees : args = t.root /\ tree = t.entries
    /\ srcStat \in Stats
    /\ destStat \in Stats
    /\ destCreatable \in BOOLEAN
    \* MkdirAll succeeds on an existing directory and fails where Stat fails
    /\ (destStat = "exists") => destCreatable
    /\ (destStat = "staterr") => ~destCreatable
    /\ source = <<>>
    /\ destination \in Destinations
    /\ clean \in BOOLEAN
    /\ fileBufferSize \in 1..MaxBuffer
    /\ linkBufferSize \in 1..MaxBuffer
    /\ pc = "preRun"
    /\ exitStatus = -1
    /\ i = 0
    /\ wi = 1
    /\ builtFiles = 0
    /\ files = <<>>
    /\ links = <<>>
    /\ filesClosed = FALSE
    /\ linksClosed = FALSE
    /\ wg = 0
    /\ linkWg = 0
    /\ fw = NoWorkers
    /\ lw = NoWorkers
    /\ visited = {}
    /\ emitted = {}
    /\ handled = [p \in Paths(tree) |-> 0]
    /\ built = {}
    /\ mkdirs = {}
    /\ symlinks = {}
    /\ summary = <<>>
    /\ quit = FALSE

\* the program started with worker counts of at least 1 on a tree that can
\* be read
Init ==
    /\ Setup
    /\ fileWorkers \in 1..MaxWorkers
    /\ linkWorkers \in 1..MaxWorkers
    /\ fault = NoFault

\* ------------------------------------------------------------------------
\* PreRun
\* ------------------------------------------------------------------------
\* exists(path): (true, nil), (false, nil) or (true, err)
exists(stat) == [found |-> stat # "absent", err |-> stat = "staterr"]

\* os.MkdirAll(destination, 0775), its error dropped
MkdirAllDestination(stat, creatable) ==
    IF stat = "absent" /\ creatable THEN "exists" ELSE stat

\* the process has not ended: its goroutines can take steps
Running == pc # "exit"

\* os.Exit(code)
Exit(code) ==
    /\ pc' = "exit"
    /\ exitStatus' = code % ExitStatusModulus

\* a PreRun that leaves clean set after it had to create the destination
PreRunKeepClean ==
    /\ pc = "preRun"
    /\ source' = args
    /\ LET d == exists(destStat)
       IN  IF d.err \/ ~d.found
           THEN /\ destStat' = MkdirAllDestination(destStat, destCreatable)
                /\ UNCHANGED clean
           ELSE UNCHANGED <<destStat, clean>>
    /\ LET s == exists(srcStat)
       IN  IF s.err \/ ~s.found
           THEN Exit(ExitSourceMissing)
           ELSE pc' = "run" /\ UNCHANGED exitStatus
    /\ UNCHANGED <<config, quit, i, wi, builtFiles, channels, wg, linkWg, fw, lw,
                   effects, summary>>

PreRun ==
    /\ pc = "preRun"
    /\ source' = args
    /\ LET d == exists(destStat)
       IN  IF d.err \/ ~d.found
           THEN /\ destStat' = MkdirAllDestination(destStat, destCreatable)
                /\ clean' = FALSE
           ELSE UNCHANGED <<destStat, clean>>
    /\ LET s == exists(srcStat)
       IN  IF s.err \/ ~s.found
           THEN Exit(ExitSourceMissing)
           ELSE pc' = "run" /\ UNCHANGED exitStatus
    /\ UNCHANGED <<config, quit, i, wi, builtFiles, channels, wg, linkWg, fw, lw,
                   effects, summary>>

\* ------------------------------------------------------------------------
\* Run: clean, set-up, the two spawn loops
\* ------------------------------------------------------------------------
\* build.CleanBuild(destination): removes the destination tree, or fails
CleanBuild(stat, ok) == IF ok THEN "absent" ELSE stat

RunStart ==
    /\ pc = "run"
    /\ IF clean
       THEN \E ok \in BOOLEAN :
               /\ destStat' = CleanBuild(destStat, ok)
               /\ IF ok
                  THEN pc' = "spawnFiles" /\ UNCHANGED exitStatus
                  ELSE Exit(ExitCleanFailed)
       ELSE pc' = "spawnFiles" /\ UNCHANGED <<destStat, exitStatus>>
    /\ source' = args
    /\ i' = 0
    /\ UNCHANGED <<config, quit, clean, wi, builtFiles, channels, wg, linkWg, fw, lw,
                   effects, summary>>

\* for i := 0; i < fileWorkers; i++ { wg.Add(1); go fileWorker(...) }
SpawnFileWorker ==
    /\ pc = "spawnFiles"
    /\ i < fileWorkers
    /\ wg' = wg + 1
    /\ fw' = [fw EXCEPT !.idle = @ + 1]
    /\ i' = i + 1
    /\ UNCHANGED <<config, quit, destStat, source, clean, pc, exitStatus, wi, builtFiles,
                   channels, linkWg, lw, effects, summary>>

SpawnFilesDone ==
    /\ pc = "spawnFiles"
    /\ ~(i < fileWorkers)
    /\ pc' = "spawnLinks"
    /\ i' = 0
    /\ UNCHANGED <<config, quit, destStat, source, clean, exitStatus, wi, builtFiles,
                   channels, wg, linkWg, fw, lw, effects, summary>>

\* for i := 0; i < linkWorkers; i++ { linkWg.Add(1); go linkWorker(...) }
SpawnLinkWorker ==
    /\ pc = "spawnLinks"
    /\ i < linkWorkers
    /\ linkWg' = linkWg + 1
    /\ lw' = [lw EXCEPT !.idle = @ + 1]
    /\ i' = i + 1
    /\ UNCHANGED <<config, quit, destStat, source, clean, pc, exitStatus, wi, builtFiles,
                   channels, wg, fw, effects, summary>>

\* a driver that starts the walk before the link worker loop is through
SpawnLinksDoneEarly ==
    /\ pc = "spawnLinks"
    /\ pc' = "walk"
    /\ UNCHANGED <<config, quit, destStat, source, clean, exitStatus, i, wi, builtFiles,
                   channels, wg, linkWg, fw, lw, effects, summary>>

SpawnLinksDone ==
    /\ pc = "spawnLinks"
    /\ ~(i < linkWorkers)
    /\ pc' = "walk"
    /\ UNCHANGED <<config, quit, destStat, source, clean, exitStatus, i, wi, builtFiles,
                   channels, wg, linkWg, fw, lw, effects, summary>>

\* ------------------------------------------------------------------------
\* filepath.Walk(source, callback)
\* ------------------------------------------------------------------------
\* f.Name() == "node_modules" && strings.Contains(path, "sugarcrm/node_modules")
SkipRule(e) == Name(e.path) = NodeModules /\ Contains(e.path, SugarNodeModules)

\* the directory filepath.Walk leaves when the callback returns SkipDir on e:
\* e itself when it is a directory, the directory that contains e otherwise
SkippedDir(e) == IF e.kind = "dir" THEN e.path ELSE Dir(e.path)

Under(p, d) == HasPrefix(p, d \o Sep)

\* a Walk that goes on with the next entry although the callback returned
\* SkipDir
AfterSkipDirIgnored(t, n) == n + 1

\* the entry Walk goes on with after SkipDir at index n: the first one after n
\* that is not below the directory it leaves
AfterSkipDir(t, n) ==
    LET rest == {m \in (n + 1)..Len(t) : ~Under(t[m].path, SkippedDir(t[n]))}
    IN  IF rest = {} THEN Len(t) + 1
        ELSE CHOOSE m \in rest : \A k \in rest : m <= k

\* utils.Counter.Increment
Increment(c) == c + 1

\* os.Lstat of the entry at n succeeds, so that the callback gets its FileInfo
LstatOk(n) == ~(fault.kind = "lstat" /\ fault.at = n)

\* the names in the directory at n can be read
ReadDirOk(n) == ~(fault.kind = "readdir" /\ fault.at = n)

\* the names of a directory cannot be read: the callback is called for the
\* directory with the error, which it ignores, and returns nil; Walk goes on
\* after the directory
WalkReadDirError ==
    /\ pc = "walk"
    /\ wi <= Len(tree)
    /\ LstatOk(wi)
    /\ ~ReadDirOk(wi)
    /\ ~SkipRule(tree[wi])
    /\ tree[wi].kind = "dir"
    /\ visited' = visited \cup {tree[wi].path}
    /\ wi' = AfterSkipDir(tree, wi)
    /\ UNCHANGED <<config, quit, destStat, source, clean, pc, exitStatus, i, builtFiles,
                   channels, wg, linkWg, fw, lw, emitted, handled, built, mkdirs,
                   symlinks, summary>>

\* os.Lstat of an entry fails: the callback is called with a nil FileInfo and
\* the error, and f.Name() panics
WalkLstatError ==
    /\ pc = "walk"
    /\ wi <= Len(tree)
    /\ ~LstatOk(wi)
    /\ Exit(ExitPanic)
    /\ UNCHANGED <<config, quit, destStat, source, clean, i, wi, builtFiles,
                   channels, wg, linkWg, fw, lw, effects, summary>>

\* the callback returns filepath.SkipDir
WalkSkipDir ==
    /\ pc = "walk"
    /\ wi <= Len(tree)
    /\ LstatOk(wi)
    /\ SkipRule(tree[wi])
    /\ visited' = visited \cup {tree[wi].path}
    /\ wi' = AfterSkipDir(tree, wi)
    /\ UNCHANGED <<config, quit, destStat, source, clean, pc, exitStatus, i, builtFiles,
                   channels, wg, linkWg, fw, lw, emitted, handled, built, mkdirs,
                   symlinks, summary>>

\* a directory: no job, Walk descends
WalkDir ==
    /\ pc = "walk"
    /\ wi <= Len(tree)
    /\ LstatOk(wi)
    /\ ReadDirOk(wi)
    /\ ~SkipRule(tree[wi])
    /\ tree[wi].kind = "dir"
    /\ visited' = visited \cup {tree[wi].path}
    /\ wi' = wi + 1
    /\ UNCHANGED <<config, quit, destStat, source, clean, pc, exitStatus, i, builtFiles,
                   channels, wg, linkWg, fw, lw, emitted, handled, built, mkdirs,
                   symlinks, summary>>

\* links <- Link{Link: path, Target: originFile}, blocking while links is full
WalkLink ==
    /\ pc = "walk"
    /\ wi <= Len(tree)
    /\ LstatOk(wi)
    /\ ~SkipRule(tree[wi])
    /\ tree[wi].kind = "link"
    /\ Len(links) < linkBufferSize
    /\ builtFiles' = Increment(builtFiles)
    /\ links' = Append(links, [Link |-> tree[wi].path, Target |-> tree[wi].target])
    /\ visited' = visited \cup {tree[wi].path}
    /\ emitted' = emitted \cup {tree[wi].path}
    /\ wi' = wi + 1
    /\ UNCHANGED <<config, quit, destStat, source, clean, pc, exitStatus, i, files,
                   filesClosed, linksClosed, wg, linkWg, fw, lw, handled, built,
                   mkdirs, symlinks, summary>>

\* a send that does not wait for room in files
WalkFileNoBlock ==
    /\ pc = "walk"
    /\ wi <= Len(tree)
    /\ LstatOk(wi)
    /\ ~SkipRule(tree[wi])
    /\ tree[wi].kind = "file"
    /\ builtFiles' = Increment(builtFiles)
    /\ files' = Append(files, tree[wi].path)
    /\ visited' = visited \cup {tree[wi].path}
    /\ emitted' = emitted \cup {tree[wi].path}
    /\ wi' = wi + 1
    /\ UNCHANGED <<config, quit, destStat, source, clean, pc, exitStatus, i, links,
                   filesClosed, linksClosed, wg, linkWg, fw, lw, handled, built,
                   mkdirs, symlinks, summary>>

\* files <- File(path), blocking while files is full
WalkFile ==
    /\ pc = "walk"
    /\ wi <= Len(tree)
    /\ LstatOk(wi)
    /\ ~SkipRule(tree[wi])
    /\ tree[wi].kind = "file"
    /\ Len(files) < fileBufferSize
    /\ builtFiles' = Increment(builtFiles)
    /\ files' = Append(files, tree[wi].path)
    /\ visited' = visited \cup {tree[wi].path}
    /\ emitted' = emitted \cup {tree[wi].path}
    /\ wi' = wi + 1
    /\ UNCHANGED <<config, quit, destStat, source, clean, pc, exitStatus, i, links,
                   filesClosed, linksClosed, wg, linkWg, fw, lw, handled, built,
                   mkdirs, symlinks, summary>>

\* a driver that goes on to close the channels while Walk still has entries
WalkDoneEarly ==
    /\ pc = "walk"
    /\ pc' = "closeFiles"
    /\ UNCHANGED <<config, quit, destStat, source, clean, exitStatus, i, wi, builtFiles,
                   channels, wg, linkWg, fw, lw, effects, summary>>

\* filepath.Walk returns
WalkDone ==
    /\ pc = "walk"
    /\ wi > Len(tree)
    /\ pc' = "closeFiles"
    /\ UNCHANGED <<config, quit, destStat, source, clean, exitStatus, i, wi, builtFiles,
                   channels, wg, linkWg, fw, lw, effects, summary>>

\* ------------------------------------------------------------------------
\* Run: close, wait, report
\* ------------------------------------------------------------------------
CloseFiles ==
    /\ pc = "closeFiles"
    /\ filesClosed' = TRUE
    /\ pc' = "closeLinks"
    /\ UNCHANGED <<config, quit, destStat, source, clean, exitStatus, i, wi, builtFiles,
                   files, links, linksClosed, wg, linkWg, fw, lw, effects, summary>>

CloseLinks ==
    /\ pc = "closeLinks"
    /\ linksClosed' = TRUE
    /\ pc' = "wait"
    /\ UNCHANGED <<config, quit, destStat, source, clean, exitStatus, i, wi, builtFiles,
                   files, links, filesClosed, wg, linkWg, fw, lw, effects, summary>>

\* wg.Wait()
WaitFileWorkers ==
    /\ pc = "wait"
    /\ wg = 0
    /\ pc' = "linkWait"
    /\ UNCHANGED <<config, quit, destStat, source, clean, exitStatus, i, wi, builtFiles,
                   channels, wg, linkWg, fw, lw, effects, summary>>

\* a driver that does not wait for the link workers
WaitLinkWorkersNoWait ==
    /\ pc = "linkWait"
    /\ pc' = "report"
    /\ UNCHANGED <<config, quit, destStat, source, clean, exitStatus, i, wi, builtFiles,
                   channels, wg, linkWg, fw, lw, effects, summary>>

\* linkWg.Wait()
WaitLinkWorkers ==
    /\ pc = "linkWait"
    /\ linkWg = 0
    /\ pc' = "report"
    /\ UNCHANGED <<config, quit, destStat, source, clean, exitStatus, i, wi, builtFiles,
                   channels, wg, linkWg, fw, lw, effects, summary>>

\* utils.Counter.Get
Get(c) == c

\* fmt.Printf("Built %d files", builtFiles.Get())
Report ==
    /\ pc = "report"
    /\ summary' = <<Get(builtFiles)>>
    /\ pc' = "done"
    /\ UNCHANGED <<config, quit, destStat, source, clean, exitStatus, i, wi, builtFiles,
                   channels, wg, linkWg, fw, lw, effects>>

\* ------------------------------------------------------------------------
\* fileWorker
\* ------------------------------------------------------------------------
\* shortPath := strings.Replace(string(file), source, "", -1)
ShortPath(p, src) == ReplaceAll(p, src)

\* finalDestination := destination + string(filepath.Separator) + shortPath
FinalDestination(p, src, dst) == dst \o Sep \o ShortPath(p, src)

\* a receive that leaves the job in the channel
FileWorkerReceiveNoDequeue ==
    /\ Running
    /\ fw.idle > 0
    /\ files # <<>>
    /\ fw' = [fw EXCEPT !.idle = @ - 1, !.busy = @ (+) SetToBag({Head(files)})]
    /\ UNCHANGED <<config, quit, destStat, source, clean, pc, exitStatus, i, wi, builtFiles,
                   channels, wg, linkWg, lw, effects, summary>>

\* case file, ok := <-files, a job received
FileWorkerReceive ==
    /\ Running
    /\ fw.idle > 0
    /\ files # <<>>
    /\ fw' = [fw EXCEPT !.idle = @ - 1, !.busy = @ (+) SetToBag({Head(files)})]
    /\ files' = Tail(files)
    /\ UNCHANGED <<config, quit, destStat, source, clean, pc, exitStatus, i, wi, builtFiles,
                   links, filesClosed, linksClosed, wg, linkWg, lw, effects, summary>>

\* build.BuildFile(string(file), finalDestination, flavor, version): succeeds
\* or fails; the worker does not look at the result and goes back to the
\* select
FileWorkerBuild ==
    \E file \in BagToSet(fw.busy), ok \in BOOLEAN :
        /\ Running
        /\ built' = built \cup
              {[file |-> file,
                dst |-> FinalDestination(file, source, destination),
                ok |-> ok]}
        /\ fw' = [fw EXCEPT !.idle = @ + 1, !.busy = @ (-) SetToBag({file})]
        /\ handled' = [handled EXCEPT ![file] = @ + 1]
        /\ UNCHANGED <<config, quit, destStat, source, clean, pc, exitStatus, i, wi,
                       builtFiles, channels, wg, linkWg, lw, visited, emitted,
                       mkdirs, symlinks, summary>>

\* a worker that returns as soon as it finds files empty, closed or not
FileWorkerReturnWhenEmpty ==
    /\ Running
    /\ fw.idle > 0
    /\ files = <<>>
    /\ fw' = [fw EXCEPT !.idle = @ - 1, !.exited = @ + 1]
    /\ wg' = wg - 1
    /\ UNCHANGED <<config, quit, destStat, source, clean, pc, exitStatus, i, wi, builtFiles,
                   channels, linkWg, lw, effects, summary>>

\* case file, ok := <-files with !ok: files is closed and drained; return,
\* and the deferred wg.Done() runs
FileWorkerReturn ==
    /\ Running
    /\ fw.idle > 0
    /\ files = <<>>
    /\ filesClosed
    /\ fw' = [fw EXCEPT !.idle = @ - 1, !.exited = @ + 1]
    /\ wg' = wg - 1
    /\ UNCHANGED <<config, quit, destStat, source, clean, pc, exitStatus, i, wi, builtFiles,
                   channels, linkWg, lw, effects, summary>>

\* case <-quit: return, and the deferred wg.Done() runs; select takes this
\* case or the receive when both are ready
FileWorkerQuit ==
    /\ Running
    /\ fw.idle > 0
    /\ quit
    /\ fw' = [fw EXCEPT !.idle = @ - 1, !.exited = @ + 1]
    /\ wg' = wg - 1
    /\ UNCHANGED <<config, quit, destStat, source, clean, pc, exitStatus, i, wi, builtFiles,
                   channels, linkWg, lw, effects, summary>>

\* ------------------------------------------------------------------------
\* linkWorker
\* ------------------------------------------------------------------------
\* the link name passed to os.Symlink(link.Target, destination)
SymlinkName(p, src, dst) == dst

\* case link, ok := <-links, a job received
LinkWorkerReceive ==
    /\ Running
    /\ lw.idle > 0
    /\ links # <<>>
    /\ lw' = [lw EXCEPT !.idle = @ - 1, !.busy = @ (+) SetToBag({Head(links)})]
    /\ links' = Tail(links)
    /\ UNCHANGED <<config, quit, destStat, source, clean, pc, exitStatus, i, wi, builtFiles,
                   files, filesClosed, linksClosed, wg, linkWg, fw, effects, summary>>

\* a link worker that returns when MkdirAll or Symlink fails
LinkWorkerSymlinkOrReturn ==
    \E link \in BagToSet(lw.busy), ok \in BOOLEAN :
        /\ Running
        /\ mkdirs' = mkdirs \cup
              {Dir(FinalDestination(link.Link, source, destination))}
        /\ symlinks' = symlinks \cup
              {[link |-> link.Link,
                target |-> link.Target,
                name |-> SymlinkName(link.Link, source, destination),
                ok |-> ok]}
        /\ lw' = IF ok
                 THEN [lw EXCEPT !.idle = @ + 1, !.busy = @ (-) SetToBag({link})]
                 ELSE [lw EXCEPT !.exited = @ + 1, !.busy = @ (-) SetToBag({link})]
        /\ linkWg' = IF ok THEN linkWg ELSE linkWg - 1
        /\ handled' = [handled EXCEPT ![link.Link] = @ + 1]
        /\ UNCHANGED <<config, quit, destStat, source, clean, pc, exitStatus, i, wi,
                       builtFiles, channels, wg, fw, visited, emitted, built, summary>>

\* os.MkdirAll(path.Dir(finalDestination), 0775) and
\* os.Symlink(link.Target, destination): each succeeds or fails; the worker
\* looks at neither result and goes back to the select
LinkWorkerSymlink ==
    \E link \in BagToSet(lw.busy), mkdirOk \in BOOLEAN, symlinkOk \in BOOLEAN :
        /\ Running
        /\ mkdirs' = mkdirs \cup
              {Dir(FinalDestination(link.Link, source, destination))}
        /\ symlinks' = symlinks \cup
              {[link |-> link.Link,
                target |-> link.Target,
                name |-> SymlinkName(link.Link, source, destination),
                ok |-> mkdirOk /\ symlinkOk]}
        /\ lw' = [lw EXCEPT !.idle = @ + 1, !.busy = @ (-) SetToBag({link})]
        /\ handled' = [handled EXCEPT ![link.Link] = @ + 1]
        /\ UNCHANGED <<config, quit, destStat, source, clean, pc, exitStatus, i, wi,
                       builtFiles, channels, wg, linkWg, fw, visited, emitted, built,
                       summary>>

\* case link, ok := <-links with !ok: return, and the deferred wg.Done() runs
LinkWorkerReturn ==
    /\ Running
    /\ lw.idle > 0
    /\ links = <<>>
    /\ linksClosed
    /\ lw' = [lw EXCEPT !.idle = @ - 1, !.exited = @ + 1]
    /\ linkWg' = linkWg - 1
    /\ UNCHANGED <<config, quit, destStat, source, clean, pc, exitStatus, i, wi, builtFiles,
                   channels, wg, fw, effects, summary>>

\* case <-quit: return, and the deferred wg.Done() runs
LinkWorkerQuit ==
    /\ Running
    /\ lw.idle > 0
    /\ quit
    /\ lw' = [lw EXCEPT !.idle = @ - 1, !.exited = @ + 1]
    /\ linkWg' = linkWg - 1
    /\ UNCHANGED <<config, quit, destStat, source, clean, pc, exitStatus, i, wi, builtFiles,
                   channels, wg, fw, effects, summary>>

\* ------------------------------------------------------------------------
\* Cancellation and the Go runtime
\* ------------------------------------------------------------------------
\* close(quit), which Run leaves to whoever does not want to wait for the
\* remaining tasks: at any moment after the channel was made
RaiseQuit ==
    /\ pc \in {"spawnFiles", "spawnLinks", "walk", "closeFiles", "closeLinks",
               "wait", "linkWait"}
    /\ ~quit
    /\ quit' = TRUE
    /\ UNCHANGED <<config, destStat, source, clean, pc, exitStatus, i, wi, builtFiles,
                   channels, wg, linkWg, fw, lw, effects, summary>>

\* the walk callback is at a send on a full channel
SendBlocked ==
    /\ pc = "walk"
    /\ wi <= Len(tree)
    /\ LstatOk(wi)
    /\ ~SkipRule(tree[wi])
    /\ \/ tree[wi].kind = "file" /\ ~(Len(files) < fileBufferSize)
       \/ tree[wi].kind = "link" /\ ~(Len(links) < linkBufferSize)

\* no worker can take a step: none has a job in hand, and those at their
\* select have nothing to receive
WorkersBlocked ==
    /\ fw.busy = EmptyBag
    /\ lw.busy = EmptyBag
    /\ fw.idle > 0 => files = <<>> /\ ~filesClosed /\ ~quit
    /\ lw.idle > 0 => links = <<>> /\ ~linksClosed /\ ~quit

\* the Go runtime ends a program whose goroutines are all blocked ("all
\* goroutines are asleep - deadlock!")
Deadlock ==
    /\ SendBlocked
    /\ WorkersBlocked
    /\ Exit(ExitPanic)
    /\ UNCHANGED <<config, quit, destStat, source, clean, i, wi, builtFiles,
                   channels, wg, linkWg, fw, lw, effects, summary>>

\* ------------------------------------------------------------------------
\* Specification
\* ------------------------------------------------------------------------
Main ==
    \/ PreRun
    \/ RunStart
    \/ SpawnFileWorker
    \/ SpawnFilesDone
    \/ SpawnLinkWorker
    \/ SpawnLinksDone
    \/ WalkSkipDir
    \/ WalkDir
    \/ WalkLink
    \/ WalkFile
    \/ WalkDone
    \/ CloseFiles
    \/ CloseLinks
    \/ WaitFileWorkers
    \/ WaitLinkWorkers
    \/ Report

FileWorker ==
    \/ FileWorkerReceive
    \/ FileWorkerBuild
    \/ FileWorkerReturn

LinkWorker ==
    \/ LinkWorkerReceive
    \/ LinkWorkerSymlink
    \/ LinkWorkerReturn

Next ==
    \/ Main
    \/ FileWorker
    \/ LinkWorker

Spec == Init /\ [][Next]_vars

\* The Go scheduler does not idle while a goroutine can run.
FairSpec == Spec /\ WF_vars(Next)

\* the run when quit can be closed
NextQuit ==
    \/ Next
    \/ RaiseQuit
    \/ FileWorkerQuit
    \/ LinkWorkerQuit
    \/ Deadlock

QuitSpec == Init /\ [][NextQuit]_vars

\* the run on a tree with an entry that cannot be read
InitFault ==
    /\ Setup
    /\ fileWorkers \in 1..MaxWorkers
    /\ linkWorkers \in 1..MaxWorkers
    /\ fault \in Faults(tree)

NextFault ==
    \/ Next
    \/ WalkReadDirError
    \/ WalkLstatError

FaultSpec == InitFault /\ [][NextFault]_vars

\* the run for every worker count the flags accept that starts no worker or
\* more
InitZero ==
    /\ Setup
    /\ fileWorkers \in 0..MaxWorkers
    /\ linkWorkers \in 0..MaxWorkers
    /\ fault = NoFault

NextZero ==
    \/ Next
    \/ Deadlock

ZeroSpec == InitZero /\ [][NextZero]_vars

TypeOK ==
    /\ pc \in {"preRun", "run", "spawnFiles", "spawnLinks", "walk", "closeFiles",
               "closeLinks", "wait", "linkWait", "report", "done", "exit"}
    /\ wi \in 1..(Len(tree) + 1)
    /\ builtFiles \in 0..Len(tree)
    /\ wg \in 0..fileWorkers
    /\ linkWg \in 0..linkWorkers
    /\ Started(fw) \in 0..fileWorkers
    /\ Started(lw) \in 0..linkWorkers
    /\ quit \in BOOLEAN
    /\ fault \in Faults(tree) \cup {NoFault}

\* ========================================================================
\* Properties
\* ========================================================================
\* number of positions of the sequence q that hold x
Count(q, x) == Cardinality({n \in 1..Len(q) : q[n] = x})

\* how many copies of the job of source path p are in a channel or in the
\* hands of a worker
InFlight(p) ==
    Count(files, p)
    + Cardinality({n \in 1..Len(links) : links[n].Link = p})
    + CopiesIn(p, fw.busy)
    + BagCardinality([j \in {k \in BagToSet(lw.busy) : k.Link = p} |-> lw.busy[j]])

\* C1: every job the walker pushed is, at every moment, either still in flight
\* (in its channel or in the hands of one worker) or handled, never both and
\* never twice; nothing that was not pushed is handled; and when the driver
\* reports completion every pushed job has been handled exactly once.
C1_ExactlyOnce ==
    /\ \A p \in Paths(tree) :
          InFlight(p) + handled[p] = (IF p \in emitted THEN 1 ELSE 0)
    /\ pc = "done" => \A p \in emitted : handled[p] = 1

\* a completed run of two file workers on a files channel of capacity 1 that
\* handled two file jobs and a link job
C1_Witness ==
    /\ pc = "done"
    /\ fileWorkers = 2
    /\ fileBufferSize = 1
    /\ Cardinality({b.file : b \in built}) = 2
    /\ symlinks # {}

\* the entry of the source tree at path p
EntryAt(p) == tree[CHOOSE n \in 1..Len(tree) : tree[n].path = p]

\* p without its leading source-folder prefix
StripPrefix(p, src) == IF HasPrefix(p, src) THEN SubSeq(p, Len(src) + 1, Len(p)) ELSE p

\* prefix substitution: the destination folder joined with p minus the
\* source-folder prefix
MappedPath(p) == Join(destination, StripPrefix(p, args))

\* the directories of the source tree that match the skip rule
SkipDirs == {tree[n].path : n \in {m \in 1..Len(tree) : tree[m].kind = "dir" /\ SkipRule(tree[m])}}

UnderSkipDir(p) == \E d \in SkipDirs : Under(p, d)

\* the non-directory source paths outside the skipped subtrees
NonDirOutsideSkipped ==
    {p \in Paths(tree) : EntryAt(p).kind # "dir" /\ ~UnderSkipDir(p)}

\* the destination paths the workers wrote, as the file system resolves them
DestinationPathsWritten ==
    {Clean(b.dst) : b \in built} \cup {Clean(l.name) : l \in symlinks}

\* C2: after a completed run the destination paths the workers wrote are the
\* non-directory source paths outside skipped subtrees, source-folder prefix
\* replaced by the destination folder.
C2_DestinationPaths ==
    pc = "done" => DestinationPathsWritten = {MappedPath(p) : p \in NonDirOutsideSkipped}

\* C3: every symlink a link worker creates for the job of source path P with
\* target X is created at the mapped destination path of P, with target X,
\* after the mapped destination directory was passed to MkdirAll.
C3_SymlinkFidelity ==
    \A l \in symlinks :
        /\ Clean(l.name) = MappedPath(l.link)
        /\ l.target = EntryAt(l.link).target
        /\ Dir(MappedPath(l.link)) \in mkdirs

\* C4: the number printed at the end of a run is the number of non-directory
\* entries the walk visited outside skipped subtrees.
C4_CounterValue ==
    pc = "done" =>
        summary = <<Cardinality({p \in visited : EntryAt(p).kind # "dir" /\ ~UnderSkipDir(p)})>>

\* C5: nothing below a directory that matches the skip rule is visited,
\* emitted as a job, held by a channel or a worker, handled, or the source of
\* a BuildFile or Symlink call; the matching directory itself is no job; and
\* the counter counts the emitted jobs only.
C5_SkipRule ==
    /\ \A p \in Paths(tree) :
          UnderSkipDir(p) =>
             /\ p \notin visited
             /\ p \notin emitted
             /\ InFlight(p) = 0
             /\ handled[p] = 0
             /\ \A b \in built : b.file # p
             /\ \A l \in symlinks : l.link # p
    /\ emitted \cap SkipDirs = {}
    /\ builtFiles = Cardinality(emitted)

\* a completed run whose walk reached a directory that matches the skip rule
\* and has an entry below it
C5_Witness ==
    /\ pc = "done"
    /\ \E d \in SkipDirs : d \in visited /\ \E p \in Paths(tree) : Under(p, d)

AllWorkersExited == fw.exited = fileWorkers /\ lw.exited = linkWorkers

\* the jobs of a walk of t from index n on that nothing runs concurrently with
RECURSIVE SequentialJobs(_, _)
SequentialJobs(t, n) ==
    IF n > Len(t) THEN {}
    ELSE IF SkipRule(t[n]) THEN SequentialJobs(t, AfterSkipDir(t, n))
         ELSE (IF t[n].kind = "dir" THEN {} ELSE {t[n].path}) \cup SequentialJobs(t, n + 1)

\* the destination writes of a run: BuildFile calls, MkdirAll calls and
\* Symlink calls, without their results
Writes ==
    [files |-> {[file |-> b.file, dst |-> b.dst] : b \in built},
     dirs |-> mkdirs,
     links |-> {[link |-> l.link, target |-> l.target, name |-> l.name] : l \in symlinks}]

\* the destination writes of handling the jobs of the sequential walk one
\* after the other, which no worker count or channel capacity enters
SequentialWrites ==
    LET jobs == SequentialJobs(tree, 1)
        fs == {p \in jobs : EntryAt(p).kind = "file"}
        ls == {p \in jobs : EntryAt(p).kind = "link"}
    IN  [files |-> {[file |-> p, dst |-> FinalDestination(p, args, destination)] : p \in fs},
         dirs |-> {Dir(FinalDestination(p, args, destination)) : p \in ls},
         links |-> {[link |-> p, target |-> EntryAt(p).target,
                     name |-> SymlinkName(p, args, destination)] : p \in ls}]

Completed ==
    /\ pc = "done"
    /\ wi > Len(tree)
    /\ filesClosed
    /\ linksClosed
    /\ AllWorkersExited
    /\ Writes = SequentialWrites

\* C6: for every worker count >= 1 and channel capacity >= 1 (1 and 1
\* included), once the set-up is past the clean the walk finishes, both
\* channels are closed, every worker exits and the driver reports, and the
\* destination writes at that moment are those of the sequential walk of the
\* tree, the same for every worker count and capacity.
C6_Termination == (pc = "spawnFiles") ~> Completed

\* a completed run of one worker per pool on channels of capacity 1 that
\* handled two file jobs
C6_Witness ==
    /\ Completed
    /\ fileWorkers = 1 /\ linkWorkers = 1
    /\ fileBufferSize = 1 /\ linkBufferSize = 1
    /\ Cardinality({b.file : b \in built}) = 2

\* the destination path a worker computes for the job of source path p, as
\* the file system resolves it
Destination(p) == Clean(FinalDestination(p, source, destination))

\* C7: the destination path a worker computes for a handled job is the
\* prefix substitution of its source path (later occurrences of the
\* source-folder string untouched), and two distinct handled source paths
\* never get the same destination path.
C7_PrefixSubstitution ==
    LET done == {p \in Paths(tree) : handled[p] > 0}
    IN  /\ \A p \in done : Destination(p) = MappedPath(p)
        /\ \A p \in done, q \in done : Destination(p) = Destination(q) => p = q

\* the jobs whose BuildFile, MkdirAll or Symlink call failed
Failed == {b.file : b \in {c \in built : ~c.ok}} \cup {l.link : l \in {m \in symlinks : ~m.ok}}

\* C8: when jobs have failed, a worker has still returned only on finding its
\* channel closed and drained, so no pushed job is in a channel without a
\* worker left to take it, and at the report every pushed job was handled.
C8_FailureDoesNotStop ==
    Failed # {} =>
        /\ fw.exited > 0 => filesClosed /\ files = <<>>
        /\ lw.exited > 0 => linksClosed /\ links = <<>>
        /\ pc = "done" => \A p \in emitted : handled[p] = 1

\* a completed run of one worker per pool in which both file jobs and the
\* link job failed: the file worker took the second job after the first one
\* failed, and every emitted job was handled
C8_Witness ==
    /\ pc = "done"
    /\ fileWorkers = 1 /\ linkWorkers = 1
    /\ Cardinality({c.file : c \in built}) = 2 /\ \A c \in built : ~c.ok
    /\ symlinks # {} /\ \A l \in symlinks : ~l.ok
    /\ \A p \in emitted : handled[p] = 1

\* C9: a completed run in which N >= 1 jobs failed reports it, so that its
\* summary differs from the summary of the run on the same tree without a
\* failure, which is the number of emitted jobs alone.
C9_ErrorsReported ==
    (pc = "done" /\ Failed # {}) => summary # <<Cardinality(emitted)>>

\* the source folder is missing, or the destination is absent and cannot be
\* created
StartupError == srcStat # "exists" \/ (destStat = "absent" /\ ~destCreatable)

\* C10: with a startup error the command never gets past PreRun: it exits
\* with a non-zero status, no worker is started, no entry is walked and
\* nothing is written to the destination.
C10_StartupErrorsFatal ==
    StartupError =>
        /\ pc \in {"preRun", "exit"}
        /\ pc = "exit" => exitStatus > 0
        /\ Started(fw) = 0
        /\ Started(lw) = 0
        /\ visited = {}
        /\ built = {} /\ mkdirs = {} /\ symlinks = {}

\* C11: build.CleanBuild runs in a run exactly when the clean option was set
\* and the destination existed when the command started: PreRun keeps clean
\* only then, Run cleans exactly when clean is still set, and no other step
\* touches the destination root or the option.  A failed clean ends the run
\* with a non-zero status before a worker is started or an entry is walked.
C11_CleanOnlyWhenExisting ==
    [][/\ pc = "preRun" => clean' = (clean /\ destStat = "exists")
       /\ pc = "run" =>
             IF clean
             THEN \/ pc' = "spawnFiles" /\ destStat' = "absent"
                  \/ /\ pc' = "exit" /\ exitStatus' > 0 /\ destStat' = destStat
                     /\ Started(fw') = 0 /\ Started(lw') = 0 /\ visited' = {}
             ELSE pc' = "spawnFiles" /\ destStat' = destStat
       /\ pc \notin {"preRun", "run"} => destStat' = destStat /\ clean' = clean]_vars

\* the clean ran and succeeded: the option is still set and the destination,
\* which existed, is gone when the workers are about to be started
C11_Witness == pc = "spawnFiles" /\ clean /\ destStat = "absent"

\* q after zero or one receive
AfterReceive(q) == IF q = <<>> THEN {q} ELSE {q, Tail(q)}

\* C14: a channel is closed only when Walk has visited its last entry and
\* the driver is past the walk; nothing is sent on a closed channel, whose
\* pending jobs only leave it from the head, one receive at a time; and a
\* worker has returned only when its channel was closed and drained.
C14_CloseAfterWalk ==
    /\ [](/\ (filesClosed \/ linksClosed) =>
                /\ wi > Len(tree)
                /\ pc \in {"closeLinks", "wait", "linkWait", "report", "done"}
          /\ fw.exited > 0 => filesClosed /\ files = <<>>
          /\ lw.exited > 0 => linksClosed /\ links = <<>>)
    /\ [][/\ filesClosed => files' \in AfterReceive(files)
          /\ linksClosed => links' \in AfterReceive(links)]_vars

\* both channels are closed while a file job is still pending in files
C14_Witness == filesClosed /\ linksClosed /\ files # <<>>

\* C15: when the driver is at or past the report, every worker of both pools
\* has returned, both wait groups are at zero, no job is in the hands of a
\* worker, both channels are empty, and the number printed is the counter.
C15_ReportAfterJoin ==
    (pc \in {"report", "done"} \/ summary # <<>>) =>
        /\ AllWorkersExited
        /\ wg = 0 /\ linkWg = 0
        /\ fw.busy = EmptyBag /\ lw.busy = EmptyBag
        /\ files = <<>> /\ links = <<>>
        /\ summary \in {<<>>, <<builtFiles>>}

\* a report after two file workers and two link workers handled three jobs
C15_Witness ==
    /\ pc = "done" /\ summary = <<3>>
    /\ fileWorkers = 2 /\ linkWorkers = 2
    /\ fw.exited = 2 /\ lw.exited = 2

\* C16: once the driver is at the walk, all fileWorkers file workers and all
\* linkWorkers link workers have been started and are counted by their wait
\* groups, so every entry is visited and every job sent with them in place.
C16_WorkersBeforeWalk ==
    (pc = "walk" \/ visited # {} \/ emitted # {}) =>
        /\ Started(fw) = fileWorkers
        /\ Started(lw) = linkWorkers
        /\ wg = fileWorkers - fw.exited
        /\ linkWg = linkWorkers - lw.exited

\* the walk is about to visit its first entry with two workers of each pool
\* waiting at their select
C16_Witness ==
    /\ pc = "walk" /\ wi = 1 /\ visited = {}
    /\ fw.idle = 2 /\ lw.idle = 2

\* C17: after a completed run the emitted jobs are exactly the non-directory
\* entries that are under no skipped directory, an entry named node_modules
\* included, each counted once.
C17_SkipRuleDirectoriesOnly ==
    pc = "done" =>
        /\ emitted = NonDirOutsideSkipped
        /\ builtFiles = Cardinality(NonDirOutsideSkipped)

\* the jobs of one kind that were sent and are not yet handled
Outstanding(kind) == {p \in emitted : EntryAt(p).kind = kind /\ handled[p] = 0}

\* C18: a channel never holds more jobs than its capacity, and the jobs of
\* one kind that were sent and are not yet handled are never more than the
\* capacity of their channel plus the workers of their pool.
C18_Backpressure ==
    /\ Len(files) <= fileBufferSize
    /\ Len(links) <= linkBufferSize
    /\ Cardinality(Outstanding("file")) <= fileBufferSize + fileWorkers
    /\ Cardinality(Outstanding("link")) <= linkBufferSize + linkWorkers

\* the walk has a third file to send while the files channel of capacity 1 is
\* full and the only file worker has a job in hand
C18_Witness ==
    /\ pc = "walk" /\ wi <= Len(tree)
    /\ tree[wi].kind = "file" /\ ~SkipRule(tree[wi])
    /\ fileBufferSize = 1 /\ fileWorkers = 1
    /\ Len(files) = 1 /\ BagCardinality(fw.busy) = 1

\* C12: a run on a tree with an entry that cannot be read is not ended by
\* it: the process exits only before the first worker is started and the
\* first entry visited, and the completed run has closed both channels,
\* joined all workers and handled the jobs of every entry it visited.
C12_ReadFailureContinues ==
    fault # NoFault =>
        /\ pc = "exit" => Started(fw) = 0 /\ Started(lw) = 0 /\ visited = {}
        /\ pc = "done" =>
              /\ filesClosed /\ linksClosed /\ AllWorkersExited
              /\ \A p \in emitted : handled[p] = 1

SendWithoutConsumer ==
    /\ pc = "walk"
    /\ wi <= Len(tree)
    /\ ~SkipRule(tree[wi])
    /\ \/ /\ tree[wi].kind = "file" /\ Len(files) = fileBufferSize
          /\ fw.exited = fileWorkers
       \/ /\ tree[wi].kind = "link" /\ Len(links) = linkBufferSize
          /\ lw.exited = linkWorkers

\* C19: a file or link worker count below 1 is rejected, so that no run with
\* such a count has the walk at a send on a full channel that has no worker,
\* ends in the runtime's deadlock error, or reports completion with a job
\* left in a channel.
C19_WorkerCountsValidated ==
    (fileWorkers < 1 \/ linkWorkers < 1) =>
        /\ ~SendWithoutConsumer
        /\ pc = "exit" => visited = {}
        /\ pc = "done" => files = <<>> /\ links = <<>>

====
